---- MODULE Spec2Model ----
(***************************************************************************)
(* A model of beancount's grammar Builder (beancount/cparser/grammar.py):  *)
(* the semantic actions the grammar engine calls, one per production.      *)
(*                                                                         *)
(* Python values are modelled as follows.                                  *)
(*   - None is the empty tuple and a present value x is <<x>>, wherever a  *)
(*     field or an argument may be absent.                                 *)
(*   - An object whose identity matters (a metadata value, compared with   *)
(*     "is") is a record [id, val]: the same id is the same object, the    *)
(*     same val is an equal value.                                         *)
(*   - A dict is a function from its keys to its values.                   *)
(*   - An exception that leaves a call is recorded in call.raised.         *)
(***************************************************************************)
EXTENDS Integers, Sequences, FiniteSets, TLC

VARIABLES
    line,            \* the line of the directive the engine is at
    errors,          \* self.errors (lexer.LexBuilder): the list of errors
    options,         \* self.options: option name -> value
    account_regexp,  \* self.account_regexp
    sys_path,        \* sys.path, as far as option() inserts into it
    entries,         \* self.entries
    object_list,     \* the engine's running list, threaded through handle_list()
    call,            \* the last call: its name, arguments, outcome and the
                     \* builder state it started from
    process          \* the other builders of the process and the objects
                     \* they may share: the module's option defaults and
                     \* the lists and dicts held as option values

vars ==
    <<line, errors, options, account_regexp, sys_path, entries, object_list, call,
      process>>

----------------------------------------------------------------------------
(* Python values *)

None == <<>>
Some(x) == <<x>>
IsNone(m) == Len(m) = 0
Get(m) == m[1]

EmptyDict == [k \in {} |-> None]
DictUpdate(d, e) ==
    [k \in (DOMAIN d) \cup (DOMAIN e) |-> IF k \in DOMAIN e THEN e[k] ELSE d[k]]
DictSetdefault(d, k, v) == IF k \in DOMAIN d THEN d ELSE d @@ (k :> v)

\* "a is b"
Is(a, b) == a.id = b.id

Obj(i, v) == [id |-> i, val |-> v]

\* Option values carry their Python type, which option() dispatches on.
Str(s) == [type |-> "str", v |-> s]
Bool(b) == [type |-> "bool", v |-> b]
List(l) == [type |-> "list", v |-> l]
Dict(d) == [type |-> "dict", v |-> d]
Tuple(t) == [type |-> "tuple", v |-> t]
Num(n) == [type |-> "Decimal", v |-> n]
NoneValue == [type |-> "NoneType", v |-> None]
Enum(m) == [type |-> "Booking", v |-> m]

\* A path is its components, absolute or relative to the current directory.
Path(abs, parts) == [abs |-> abs, parts |-> parts]

\* os.path.dirname
Dirname(p) == Path(p.abs, SubSeq(p.parts, 1, Len(p.parts) - 1))

----------------------------------------------------------------------------
(* Bounds *)

\* The longest posting_or_kv_list the engine builds for one transaction.
MaxItems == 3
\* The number of syntax errors the lexer reports before the transaction.
MaxPriorErrors == 1
\* The number of option, include and plugin directives of a source file.
MaxDirectives == 3
MaxSessionCalls == 3

----------------------------------------------------------------------------
(* Inputs of the grammar engine *)

TheFilename == Path(TRUE, <<"x", "y", "main.txt">>)

o1 == Obj(1, "a")
o2 == Obj(2, "a")      \* equal to o1, another object
o3 == Obj(3, "b")

PostingItem(acc, n, fl, m) ==
    [kind |-> "Posting", account |-> acc, units |-> n, cost |-> None,
     price |-> None, flag |-> fl, meta |-> m]
KeyValueItem(k, v) == [kind |-> "KeyValue", key |-> k, value |-> v]
TagsLinksItem(t, l) == [kind |-> "TagsLinks", tags |-> t, links |-> l]

\* The metadata values of a source location.
FilenameObj(f) == Obj(10, f)
LinenoObj(n) == Obj(20 + n, n)

\* A posting comes with no metadata, or with the metadata of its own line.
Postings ==
    { PostingItem("Assets:Cash", 1, None, None),
      PostingItem("Expenses:Food", 2, Some("!"),
                  Some(("filename" :> FilenameObj(TheFilename))
                       @@ ("lineno" :> LinenoObj(8)))) }
KeyValues ==
    { KeyValueItem("k1", o1), KeyValueItem("k1", o2), KeyValueItem("k1", o3),
      KeyValueItem("lineno", o3) }
TagsLinksItems == { TagsLinksItem({"t1"}, {"l1"}) }
Items == Postings \cup KeyValues \cup TagsLinksItems

TxnStrings ==
    { None, Some(<<>>), Some(<<"n">>), Some(<<"p", "n">>), Some(<<"a", "b", "c">>) }
ActiveMetas == { None, Some(("k1" :> o3) @@ ("k2" :> o1)) }
Flags == {42, 33}
Date(y, m, d) == <<y, m, d>>
TheDate == Date(2016, 1, 1)
TheTags == {"t0"}
TheLinks == {}

----------------------------------------------------------------------------
(* beancount.core.data *)

\* dict.update with a list of (key, value) pairs: the last value of a key stays
RECURSIVE DictUpdatePairs(_, _, _)
DictUpdatePairs(d, pairs, i) ==
    IF i > Len(pairs) THEN d
    ELSE DictUpdatePairs(DictUpdate(d, pairs[i].key :> pairs[i].value), pairs, i + 1)

new_metadata(filename, lineno, kvlist) ==
    LET meta == ("filename" :> FilenameObj(filename)) @@ ("lineno" :> LinenoObj(lineno))
    IN  IF ~IsNone(kvlist) /\ Len(Get(kvlist)) > 0
        THEN DictUpdatePairs(meta, Get(kvlist), 1)
        ELSE meta

\* The members of the enumeration Booking
Booking == {"STRICT", "NONE", "AVERAGE", "FIFO", "LIFO"}

EMPTY_SET == {}

\* chr() on the flag characters of the grammar
Chr(c) == CASE c = 42 -> "*" [] c = 33 -> "!" [] c = 63 -> "?"

----------------------------------------------------------------------------
(* Errors.  A message is its fixed text and the value formatted into it. *)

Msg(text, arg) == [text |-> text, arg |-> arg]

ParserError(source, message, entry) ==
    [type |-> "ParserError", source |-> source, message |-> message, entry |-> entry]
ParserSyntaxError(source, message, entry) ==
    [type |-> "ParserSyntaxError", source |-> source, message |-> message,
     entry |-> entry]
DeprecatedError(source, message, entry) ==
    [type |-> "DeprecatedError", source |-> source, message |-> message,
     entry |-> entry]

----------------------------------------------------------------------------
(* Builder.transaction and its helpers.  Each returns the value the code   *)
(* returns and the messages of the errors it appends.                      *)

\* Mutant: with more than two strings, the first two are used.
_unpack_txn_strings_first_two(txn_strings) ==
    LET num_strings == IF IsNone(txn_strings) THEN 0 ELSE Len(Get(txn_strings))
    IN  IF num_strings = 1 THEN
            [ret |-> Some(<<None, Get(txn_strings)[1]>>), msgs |-> <<>>]
        ELSE IF num_strings = 0 THEN
            [ret |-> Some(<<None, "">>), msgs |-> <<>>]
        ELSE
            [ret |-> Some(<<Some(Get(txn_strings)[1]), Get(txn_strings)[2]>>),
             msgs |-> <<>>]

\* Builder._unpack_txn_strings: None, or Some(<<payee, narration>>).
\* `ret` is the return value, `msgs` the messages of the errors appended.
_unpack_txn_strings(txn_strings) ==
    LET num_strings == IF IsNone(txn_strings) THEN 0 ELSE Len(Get(txn_strings))
    IN  IF num_strings = 1 THEN
            [ret |-> Some(<<None, Get(txn_strings)[1]>>), msgs |-> <<>>]
        ELSE IF num_strings = 2 THEN
            [ret |-> Some(<<Some(Get(txn_strings)[1]), Get(txn_strings)[2]>>),
             msgs |-> <<>>]
        ELSE IF num_strings = 0 THEN
            [ret |-> Some(<<None, "">>), msgs |-> <<>>]
        ELSE
            [ret |-> None,
             msgs |-> <<Msg("Too many strings on transaction description",
                            txn_strings)>>]

\* Builder._finalize_tags_links
_finalize_tags_links(tags, links) ==
    << IF tags # {} THEN tags ELSE EMPTY_SET,
       IF links # {} THEN links ELSE EMPTY_SET >>

\* The test "value is not posting_or_kv.value" after dict.setdefault.
SetdefaultReportsDuplicate(value, kv) == ~Is(value, kv.value)

\* Mutant: a TagsLinks item is never rejected.
TagsLinksRejected_never(st) == FALSE

\* The test "if postings:" that rejects a TagsLinks item.
TagsLinksRejected(st) == Len(st.postings) > 0

\* Mutant: every KeyValue goes to the entry's metadata.
KeyValueIsForEntry_always(st) == TRUE

\* The test "last_posting is None" that sends a KeyValue to the entry's metadata.
KeyValueIsForEntry(st) == IsNone(st.last_posting)

\* Mutant: the active metadata is applied last and wins.
EntryMeta_active_last(filename, lineno, active_meta, explicit_meta) ==
    LET meta0 == new_metadata(filename, lineno, None)
        meta1 == DictUpdate(meta0, explicit_meta)
    IN  IF ~IsNone(active_meta) THEN DictUpdate(meta1, Get(active_meta)) ELSE meta1

\* The entry's metadata: new_metadata, updated with the active metadata, then
\* with the explicit metadata.
EntryMeta(filename, lineno, active_meta, explicit_meta) ==
    LET meta0 == new_metadata(filename, lineno, None)
        meta1 == IF ~IsNone(active_meta) /\ DOMAIN Get(active_meta) # {}
                 THEN DictUpdate(meta0, Get(active_meta))
                 ELSE meta0
    IN  IF DOMAIN explicit_meta # {}
        THEN DictUpdate(meta1, explicit_meta)
        ELSE meta1

\* One iteration of the loop over posting_or_kv_list.  st holds the loop's
\* locals: explicit_meta, postings, last_posting, tags, links, and the
\* messages of the errors appended so far.
\* Mutant: the posting with its new dict is appended, the old one stays.
ReplaceLast_without_pop(postings, last_posting) == Append(postings, last_posting)

\* "postings.pop(-1); postings.append(last_posting)"
ReplaceLast(postings, last_posting) ==
    Append(SubSeq(postings, 1, Len(postings) - 1), last_posting)

TxnLoopBody(st, posting_or_kv) ==
    IF posting_or_kv.kind = "Posting" THEN
        [st EXCEPT !.postings = Append(@, posting_or_kv),
                   !.last_posting = Some(posting_or_kv)]
    ELSE IF posting_or_kv.kind = "TagsLinks" THEN
        IF TagsLinksRejected(st) THEN
            [st EXCEPT !.msgs = Append(@,
                Msg("Tags or links not allowed after first Posting", posting_or_kv))]
        ELSE
            [st EXCEPT !.tags = @ \cup posting_or_kv.tags,
                       !.links = @ \cup posting_or_kv.links]
    ELSE
        IF KeyValueIsForEntry(st) THEN
            LET explicit_meta ==
                    DictSetdefault(st.explicit_meta, posting_or_kv.key,
                                   posting_or_kv.value)
                value == explicit_meta[posting_or_kv.key]
            IN  [st EXCEPT
                    !.explicit_meta = explicit_meta,
                    !.msgs = IF SetdefaultReportsDuplicate(value, posting_or_kv)
                             THEN Append(@, Msg("Duplicate metadata field on entry",
                                                posting_or_kv))
                             ELSE @]
        ELSE
            \* A posting without metadata is replaced by a copy with an empty
            \* dict (pop, append); one with metadata is the last element of
            \* postings itself, and setdefault changes its dict in place.
            LET old == Get(st.last_posting)
                fresh == IsNone(old.meta)
                last_posting == IF fresh THEN [old EXCEPT !.meta = Some(EmptyDict)]
                                ELSE old
                meta == DictSetdefault(Get(last_posting.meta), posting_or_kv.key,
                                       posting_or_kv.value)
                value == meta[posting_or_kv.key]
                updated == [last_posting EXCEPT !.meta = Some(meta)]
                n == Len(st.postings)
            IN  [st EXCEPT
                    !.last_posting = Some(updated),
                    !.postings = IF fresh
                                 THEN ReplaceLast(@, updated)
                                 ELSE [@ EXCEPT ![n] = updated],
                    !.msgs = IF SetdefaultReportsDuplicate(value, posting_or_kv)
                             THEN Append(@, Msg("Duplicate posting metadata field",
                                                posting_or_kv))
                             ELSE @]

RECURSIVE TxnLoop(_, _, _)
TxnLoop(st, list, i) ==
    IF i > Len(list) THEN st
    ELSE TxnLoop(TxnLoopBody(st, list[i]), list, i + 1)

\* Builder.transaction.  Every error of the call holds the dict `meta`
\* itself, so it shows the metadata as updated at the end of the call.
\* Mutant: the transaction is dropped whenever the call recorded an error.
TransactionDropped_on_any_error(payee_narration, msgs) ==
    IsNone(payee_narration.ret) \/ Len(msgs) > 0

\* "if payee_narration is None: return None"
TransactionDropped(payee_narration, msgs) == IsNone(payee_narration.ret)

transaction(filename, lineno, date, flag, txn_strings, tags, links, posting_or_kv_list, active_meta) ==
    LET st0 == [explicit_meta |-> EmptyDict, postings |-> <<>>,
                last_posting |-> None, tags |-> tags, links |-> links,
                msgs |-> <<>>]
        st == IF ~IsNone(posting_or_kv_list) /\ Len(Get(posting_or_kv_list)) > 0
              THEN TxnLoop(st0, Get(posting_or_kv_list), 1)
              ELSE st0
        tl == _finalize_tags_links(st.tags, st.links)
        meta == EntryMeta(filename, lineno, active_meta, st.explicit_meta)
        payee_narration == _unpack_txn_strings(txn_strings)
        msgs == st.msgs \o payee_narration.msgs
        errs == [i \in 1..Len(msgs) |-> ParserError(meta, msgs[i], None)]
    IN  IF TransactionDropped(payee_narration, msgs) THEN
            [ret |-> None, errs |-> errs]
        ELSE
            [ret |-> Some([kind |-> "Transaction", meta |-> meta, date |-> date,
                           flag |-> Chr(flag),
                           payee |-> Get(payee_narration.ret)[1],
                           narration |-> Get(payee_narration.ret)[2],
                           tags |-> tl[1], links |-> tl[2],
                           postings |-> st.postings]),
             errs |-> errs]

\* Mutant: an absent list stays absent when there is nothing to append.
handle_list_keeps_absent(list, new_object) ==
    IF IsNone(new_object) THEN list
    ELSE Some(Append(IF IsNone(list) THEN <<>> ELSE Get(list), Get(new_object)))

\* Builder.handle_list
handle_list(list, new_object) ==
    LET l == IF IsNone(list) THEN <<>> ELSE Get(list)
    IN  Some(IF ~IsNone(new_object) THEN Append(l, Get(new_object)) ELSE l)

----------------------------------------------------------------------------
(* beancount.parser.options: the option schema.  One descriptor per key:   *)
(* the default value (whose type is the key's kind), the converter, the    *)
(* deprecation message and the alias, each of the last three optional.     *)

Opt(default, converter, deprecated, alias) ==
    [default |-> default, converter |-> converter, deprecated |-> deprecated,
     alias |-> alias]

OPTIONS ==
    ("filename" :> Opt(NoneValue, None, None, None))
 @@ ("input_file" :> Opt(NoneValue, None, None, Some("filename")))
 @@ ("include" :> Opt(List(<<>>), None, None, None))
 @@ ("plugin" :> Opt(List(<<>>), None, None, None))
 @@ ("name_assets" :> Opt(Str("Assets"), None, None, None))
 @@ ("name_liabilities" :> Opt(Str("Liabilities"), None, None, None))
 @@ ("name_equity" :> Opt(Str("Equity"), None, None, None))
 @@ ("name_income" :> Opt(Str("Income"), None, None, None))
 @@ ("name_expenses" :> Opt(Str("Expenses"), None, None, None))
 @@ ("account_assets" :>
        Opt(Str("Assets"), None,
            Some("This option has been renamed to 'name_assets'"),
            Some("name_assets")))
 @@ ("operating_currency" :> Opt(List(<<>>), None, None, None))
 @@ ("inferred_tolerance_default" :>
        Opt(Dict(EmptyDict), Some("options_validate_tolerance_map"), None, None))
 @@ ("default_tolerance" :>
        Opt(Dict(EmptyDict), None,
            Some("This option has been renamed to 'inferred_tolerance_default'"),
            Some("inferred_tolerance_default")))
 @@ ("map_plain" :> Opt(Dict(EmptyDict), None, None, None))
 @@ ("map_old" :> Opt(Dict(EmptyDict), None, Some("This option is obsolete"), None))
 @@ ("render_commas" :> Opt(Bool(FALSE), None, None, None))
 @@ ("infer_tolerance_from_cost" :>
        Opt(Bool(FALSE), Some("options_validate_boolean"), None, None))
 @@ ("booking_method" :>
        Opt(Enum("STRICT"), Some("options_validate_booking_method"), None, None))
 @@ ("insert_pythonpath" :> Opt(Bool(FALSE), None, None, None))

READ_ONLY_OPTIONS == {"filename"}

OPTIONS_DEFAULTS == [k \in DOMAIN OPTIONS |-> OPTIONS[k].default]

\* A converter returns a value or raises ValueError.
Converted(v) == [ok |-> TRUE, value |-> v]
ValueError(text) == [ok |-> FALSE, exc |-> text]

\* options_validate_tolerance_map: "CUR:NUM" to the pair (CUR, NUM)
options_validate_tolerance_map(value) ==
    CASE value = Str("USD:1") -> Converted(Tuple(<<"USD", Num(1)>>))
      [] value = Str("USD:2") -> Converted(Tuple(<<"USD", Num(2)>>))
      [] value = Str("CHF:2") -> Converted(Tuple(<<"CHF", Num(2)>>))
      [] OTHER -> ValueError("Invalid tolerance map")

\* options_validate_boolean: a text to a native boolean
options_validate_boolean(value) ==
    Converted(Bool(value.v \in {"1", "true", "yes"}))

\* options_validate_booking_method: the name of a Booking member to the member
options_validate_booking_method(value) ==
    IF value.v \in Booking THEN Converted(Enum(value.v))
    ELSE ValueError("Invalid booking method")

Convert(converter, value) ==
    CASE converter = "options_validate_tolerance_map" ->
            options_validate_tolerance_map(value)
      [] converter = "options_validate_boolean" ->
            options_validate_boolean(value)
      [] converter = "options_validate_booking_method" ->
            options_validate_booking_method(value)

\* str.lower
Lower(text) ==
    CASE text = "TRUE" -> "true"
      [] text = "True" -> "true"
      [] text = "ON" -> "on"
      [] text = "On" -> "on"
      [] text = "YES" -> "yes"
      [] OTHER -> text

NameKeys == <<"name_assets", "name_liabilities", "name_equity", "name_income",
              "name_expenses">>

----------------------------------------------------------------------------
(* valid_account_regexp and Builder.option *)

\* The pattern (?:names joined by |)(?:sep component)+ : the five names it
\* is built from, in order.
valid_account_regexp(opts) ==
    [names |-> [i \in 1..Len(NameKeys) |-> opts[NameKeys[i]].v],
     rest |-> "(?:{sep}{ACC_COMP_NAME_RE})+"]

\* "key not in self.options"
OptionIsUnknown(opts, key) == key \notin DOMAIN opts

\* "key in options.READ_ONLY_OPTIONS"
OptionIsReadOnly(key) == key \in READ_ONLY_OPTIONS

\* "isinstance(value, tuple) and len(value) == 2"
IsPair(value) == value.type = "tuple" /\ Len(value.v) = 2

\* Mutant: the text is compared as written.
TextIsTrue_as_written(text) == (text \in {"true", "on"}) \/ (text = "1")

\* The textual forms of true
TextIsTrue(text) == (Lower(text) \in {"true", "on"}) \/ (text = "1")

\* Mutant: the text is stored as given.
ParsedBool_not_parsed(value) == value

\* "Convert to a boolean"
ParsedBool(value) == Bool(TextIsTrue(value.v))

\* Mutant: no key is taken for a name option.
StartsWithName_never(key) == FALSE

\* key.startswith('name_')
StartsWithName(key) ==
    \E i \in 1..Len(NameKeys) : NameKeys[i] = key

\* The part of the builder option() works on
OptionState(errs, opts, regexp, path, raised) ==
    [errors |-> errs, options |-> opts, account_regexp |-> regexp,
     sys_path |-> path, raised |-> raised]

\* The merge of a converted value into the store and the side effects that
\* follow it.  `bound` tells whether the local `meta` was assigned, which only
\* the deprecation branch does on this path; errs holds the errors so far.
OptionMerge(b, errs, bound, filename, lineno, key, value) ==
    LET option == b.options[key]
        meta == new_metadata(filename, lineno, None)
        stored(opts) ==
            OptionState(errs, opts,
                        IF StartsWithName(key) THEN valid_account_regexp(opts)
                        ELSE b.account_regexp,
                        IF ~StartsWithName(key) /\ key = "insert_pythonpath"
                        THEN <<Dirname(filename)>> \o b.sys_path
                        ELSE b.sys_path,
                        "none")
        unchanged(es, raised) ==
            OptionState(es, b.options, b.account_regexp, b.sys_path, raised)
    IN  IF option.type = "list" THEN
            stored([b.options EXCEPT ![key] = List(Append(option.v, value))])
        ELSE IF option.type = "dict" THEN
            IF ~IsPair(value) THEN
                IF bound
                THEN unchanged(Append(errs,
                        ParserError(meta, Msg("Error for option", <<key, value>>),
                                    None)), "none")
                ELSE unchanged(errs, "UnboundLocalError")
            ELSE
                stored([b.options EXCEPT ![key] =
                    Dict([k \in (DOMAIN option.v) \cup {value.v[1]} |->
                            IF k = value.v[1] THEN value.v[2] ELSE option.v[k]])])
        ELSE IF option.type = "bool" THEN
            IF value.type = "bool" THEN
                stored([b.options EXCEPT ![key] = value])
            ELSE IF value.type = "str" THEN
                stored([b.options EXCEPT ![key] = ParsedBool(value)])
            ELSE unchanged(errs, "AttributeError")
        ELSE
            stored([b.options EXCEPT ![key] = value])

\* Mutant: the unknown key is reported and the value stored all the same.
InvalidOption_stores(b, filename, lineno, key, value) ==
    OptionState(Append(b.errors,
                    ParserError(new_metadata(filename, lineno, None),
                                Msg("Invalid option", key), None)),
                b.options @@ (key :> value), b.account_regexp, b.sys_path, "none")

\* The branch of a key that is not in self.options
InvalidOption(b, filename, lineno, key, value) ==
    OptionState(Append(b.errors,
                    ParserError(new_metadata(filename, lineno, None),
                                Msg("Invalid option", key), None)),
                b.options, b.account_regexp, b.sys_path, "none")

\* Mutant: the read-only key is reported and set all the same.
ReadOnlyOption_sets(b, filename, lineno, key, value) ==
    OptionState(Append(b.errors,
                    ParserError(new_metadata(filename, lineno, None),
                                Msg("Option may not be set", key), None)),
                [b.options EXCEPT ![key] = value], b.account_regexp, b.sys_path,
                "none")

\* The branch of a read-only key
ReadOnlyOption(b, filename, lineno, key, value) ==
    OptionState(Append(b.errors,
                    ParserError(new_metadata(filename, lineno, None),
                                Msg("Option may not be set", key), None)),
                b.options, b.account_regexp, b.sys_path, "none")

\* Mutant: after the conversion error the raw value is merged (no return).
ConversionFailed_goes_on(b, errs, bound, filename, lineno, key, value, exc) ==
    OptionMerge(b, Append(errs,
                    ParserError(new_metadata(filename, lineno, None),
                                Msg("Error for option", <<key, exc>>), None)),
                bound, filename, lineno, key, value)

\* Mutant: the conversion error replaces the error list.
ConversionFailed_forgets(b, errs, bound, filename, lineno, key, value, exc) ==
    OptionState(<<ParserError(new_metadata(filename, lineno, None),
                              Msg("Error for option", <<key, exc>>), None)>>,
                b.options, b.account_regexp, b.sys_path, "none")

\* The handler of the converter's ValueError: one error, and the call returns
ConversionFailed(b, errs, bound, filename, lineno, key, value, exc) ==
    OptionState(Append(errs,
                    ParserError(new_metadata(filename, lineno, None),
                                Msg("Error for option", <<key, exc>>), None)),
                b.options, b.account_regexp, b.sys_path, "none")

\* Mutant: the alias is not followed.
AliasedKey_ignored(descriptor, key) == key

\* "Rename the option if it has an alias"
AliasedKey(descriptor, key) ==
    IF ~IsNone(descriptor.alias) THEN Get(descriptor.alias) ELSE key

\* Builder.option.  b is the builder's state (errors, options,
\* account_regexp, sys_path); the result is its state after the call and the
\* exception that left the call, if any.
option(b, filename, lineno, key, value) ==
    IF OptionIsUnknown(b.options, key) THEN
        InvalidOption(b, filename, lineno, key, value)
    ELSE IF OptionIsReadOnly(key) THEN
        ReadOnlyOption(b, filename, lineno, key, value)
    ELSE
        LET descriptor0 == OPTIONS[key]
            deprecated == ~IsNone(descriptor0.deprecated)
            errs1 == IF deprecated
                     THEN Append(b.errors,
                            DeprecatedError(new_metadata(filename, lineno, None),
                                            Msg(Get(descriptor0.deprecated), key),
                                            None))
                     ELSE b.errors
            key1 == AliasedKey(descriptor0, key)
            option_descriptor == OPTIONS[key1]
            conv == IF ~IsNone(option_descriptor.converter)
                    THEN Convert(Get(option_descriptor.converter), value)
                    ELSE Converted(value)
        IN  IF ~conv.ok THEN
                ConversionFailed(b, errs1, deprecated, filename, lineno, key1, value,
                                 conv.exc)
            ELSE
                OptionMerge(b, errs1, deprecated, filename, lineno, key1, conv.value)

\* Builder.include: the options after the call
include(opts, include_filename) ==
    [opts EXCEPT !["include"] = List(Append(@.v, Str(include_filename)))]

\* Builder.plugin: the options after the call
plugin(opts, plugin_name, plugin_config) ==
    [opts EXCEPT !["plugin"] =
        List(Append(@.v, Tuple(<<plugin_name, plugin_config>>)))]

----------------------------------------------------------------------------
(* The directive constructors.  Each gives the value returned (None when   *)
(* the call raises), the errors appended and the exception raised, if any. *)

Returned(entry, errs) == [ret |-> Some(entry), errs |-> errs, raised |-> "none"]
Raised(exc) == [ret |-> None, errs |-> <<>>, raised |-> exc]

\* os.path.join(a, b), os.path.abspath
CurrentDirectory == <<"home">>
PathJoin(a, b) == IF b.abs THEN b ELSE Path(a.abs, a.parts \o b.parts)
Abspath(p) == IF p.abs THEN p ELSE Path(TRUE, CurrentDirectory \o p.parts)

\* Builder.open
open(opts, filename, lineno, date, account, currencies, booking_str, kvlist) ==
    LET meta == new_metadata(filename, lineno, kvlist)
        given == ~IsNone(booking_str) /\ Get(booking_str) # ""
        error == given /\ Get(booking_str) \notin Booking
        booking == IF ~given THEN None
                   ELSE IF error THEN Some(opts["booking_method"].v)
                   ELSE Some(Get(booking_str))
        entry == [kind |-> "Open", meta |-> meta, date |-> date, account |-> account,
                  currencies |-> currencies, booking |-> booking]
    IN  Returned(entry,
                 IF error
                 THEN <<ParserError(meta, Msg("Invalid booking method", booking_str),
                                    Some(entry))>>
                 ELSE <<>>)

\* Builder.close
close(filename, lineno, date, account, kvlist) ==
    Returned([kind |-> "Close", meta |-> new_metadata(filename, lineno, kvlist),
              date |-> date, account |-> account], <<>>)

\* Builder.commodity
commodity(filename, lineno, date, currency, kvlist) ==
    Returned([kind |-> "Commodity", meta |-> new_metadata(filename, lineno, kvlist),
              date |-> date, currency |-> currency], <<>>)

\* Builder.pad
pad(filename, lineno, date, account, source_account, kvlist) ==
    Returned([kind |-> "Pad", meta |-> new_metadata(filename, lineno, kvlist),
              date |-> date, account |-> account,
              source_account |-> source_account], <<>>)

\* Builder.event
event(filename, lineno, date, event_type, description, kvlist) ==
    Returned([kind |-> "Event", meta |-> new_metadata(filename, lineno, kvlist),
              date |-> date, type |-> event_type, description |-> description],
             <<>>)

\* Builder.query
query(filename, lineno, date, query_name, query_string, kvlist) ==
    Returned([kind |-> "Query", meta |-> new_metadata(filename, lineno, kvlist),
              date |-> date, name |-> query_name, query_string |-> query_string],
             <<>>)

\* Builder.price
price(filename, lineno, date, currency, amount, kvlist) ==
    Returned([kind |-> "Price", meta |-> new_metadata(filename, lineno, kvlist),
              date |-> date, currency |-> currency, amount |-> amount], <<>>)

\* Builder.note
note(filename, lineno, date, account, comment, kvlist) ==
    Returned([kind |-> "Note", meta |-> new_metadata(filename, lineno, kvlist),
              date |-> date, account |-> account, comment |-> comment], <<>>)

\* Builder.document.  The statement before the return reads the name
\* tags_links, which is neither a parameter, nor a local, nor a global of the
\* module: every call ends there with NameError.
document(filename, lineno, date, account, document_filename, tags, links, kvlist) ==
    LET meta == new_metadata(filename, lineno, kvlist)
        resolved == IF ~document_filename.abs
                    THEN Abspath(PathJoin(Dirname(filename), document_filename))
                    ELSE document_filename
    IN  Raised("NameError")

\* Builder.custom_value
custom_value(value, dtype) ==
    [value |-> value, dtype |-> IF IsNone(dtype) THEN value.type ELSE Get(dtype)]

\* Builder.custom
custom(filename, lineno, date, dir_type, custom_values, kvlist) ==
    Returned([kind |-> "Custom", meta |-> new_metadata(filename, lineno, kvlist),
              date |-> date, type |-> dir_type, values |-> custom_values], <<>>)

----------------------------------------------------------------------------
(* finalize, get_entries, get_options and store_result *)

\* The priority of a directive kind in the sort key
entry_priority(kind) ==
    CASE kind = "Open" -> 0 - 2
      [] kind = "Document" -> 1
      [] kind = "Close" -> 2
      [] OTHER -> 0

\* datetime.date.__lt__
DateLess(a, b) ==
    \/ a[1] < b[1]
    \/ a[1] = b[1] /\ a[2] < b[2]
    \/ a[1] = b[1] /\ a[2] = b[2] /\ a[3] < b[3]

\* data.entry_sortkey: the date, then the priority of the kind
entry_sortkey(entry) == <<entry.date, entry_priority(entry.kind)>>
SortKeyLess(a, b) == DateLess(a[1], b[1]) \/ (a[1] = b[1] /\ a[2] < b[2])

\* sorted(list, key=data.entry_sortkey): Python's sort is stable, an entry
\* goes after the entries before it whose key is not greater.
RECURSIVE SortedInsert(_, _)
SortedInsert(seq, entry) ==
    IF Len(seq) = 0 THEN <<entry>>
    ELSE IF SortKeyLess(entry_sortkey(entry), entry_sortkey(seq[Len(seq)]))
    THEN Append(SortedInsert(SubSeq(seq, 1, Len(seq) - 1), entry), seq[Len(seq)])
    ELSE Append(seq, entry)

RECURSIVE sorted(_)
sorted(seq) ==
    IF Len(seq) = 0 THEN <<>>
    ELSE SortedInsert(sorted(SubSeq(seq, 1, Len(seq) - 1)), seq[Len(seq)])

\* Mutant: the entries are returned in the order stored.
get_entries_as_stored(stored) == stored

\* Builder.get_entries
get_entries(stored) == sorted(stored)

\* The display context, of which only the comma setting is kept
DisplayContext(commas) == [type |-> "DisplayContext", v |-> commas]

\* Builder.get_options: the store itself, with the key 'dcontext' set
get_options(opts, dcontext) ==
    [k \in DOMAIN opts \cup {"dcontext"} |->
        IF k = "dcontext" THEN dcontext ELSE opts[k]]

\* Builder.finalize: the triple returned and the store after the call
finalize(stored, errs, opts) ==
    LET dcontext == DisplayContext(opts["render_commas"].v)
    IN  [entries |-> get_entries(stored), errors |-> errs,
         options |-> get_options(opts, dcontext)]

\* Builder.store_result: the entries and the options after the call
store_result(stored, opts, filename, new_entries) ==
    [entries |-> IF ~IsNone(new_entries) /\ Len(Get(new_entries)) > 0
                 THEN Get(new_entries) ELSE stored,
     options |-> [opts EXCEPT !["filename"] = Str(filename)]]

----------------------------------------------------------------------------
(* The objects builders of one process may share.  A list or dict held as   *)
(* an option value is a cell, named by a reference <<owner, key>>; a store  *)
(* holds the reference, and other values as they are.                       *)

Ref(owner, key) == [type |-> "ref", v |-> <<owner, key>>]
IsRef(x) == x.type = "ref"
IsContainer(value) == value.type \in {"list", "dict"}

\* The option values a store with references stands for
Deref(cells, store) ==
    [k \in DOMAIN store |-> IF IsRef(store[k]) THEN cells[store[k].v] ELSE store[k]]

\* Mutant: a copy of the mapping only, holding the values of the original.
deepcopy_of_mapping_only(cells, store, owner) ==
    [store |-> store, cells |-> cells]

\* copy.deepcopy of a store: every list and dict in it is copied as well
deepcopy(cells, store, owner) ==
    LET held == {k \in DOMAIN store : IsRef(store[k])}
        fresh == {<<owner, k>> : k \in held}
    IN  [store |-> [k \in DOMAIN store |->
                      IF k \in held THEN Ref(owner, k) ELSE store[k]],
         cells |-> [r \in (DOMAIN cells) \cup fresh |->
                      IF r \in fresh THEN cells[store[r[2]].v] ELSE cells[r]]]

\* The store and the cells once the values of the store are `view`:
\* append() and item assignment change the list or dict itself, any other
\* value is bound to its key in the store.
Assigned(cells, store, view) ==
    [store |-> [k \in DOMAIN view |->
                  IF k \in DOMAIN store /\ IsRef(store[k]) THEN store[k]
                  ELSE view[k]],
     cells |-> [r \in DOMAIN cells |->
                  IF r[2] \in DOMAIN store /\ IsRef(store[r[2]]) /\ store[r[2]].v = r
                  THEN view[r[2]] ELSE cells[r]]]

\* The builders a process may create besides the one at hand
Sessions == {1, 2}

\* The process when the module has been imported: options.OPTIONS_DEFAULTS
\* with its lists and dicts, and no other builder
ProcessAtImport ==
    [defaults |-> [k \in DOMAIN OPTIONS_DEFAULTS |->
                     IF IsContainer(OPTIONS_DEFAULTS[k]) THEN Ref(0, k)
                     ELSE OPTIONS_DEFAULTS[k]],
     cells |-> [r \in {<<0, k>> : k \in {k \in DOMAIN OPTIONS_DEFAULTS :
                                            IsContainer(OPTIONS_DEFAULTS[k])}} |->
                  OPTIONS_DEFAULTS[r[2]]],
     sessions |-> [s \in {} |-> None],
     calls |-> 0,
     actor |-> 0]

----------------------------------------------------------------------------
(* The builder after construction *)

Init ==
    /\ line = 1
    /\ errors = <<>>
    /\ options = OPTIONS_DEFAULTS
    /\ account_regexp = valid_account_regexp(options)
    /\ sys_path = <<>>
    /\ entries = <<>>
    /\ object_list = None
    /\ call = [op |-> "init", raised |-> "none"]
    /\ process = ProcessAtImport

\* The builder's state when a call starts
Pre == [errors |-> errors, options |-> options, account_regexp |-> account_regexp,
        sys_path |-> sys_path, entries |-> entries]

----------------------------------------------------------------------------
(* Operations *)

\* Builder.build_grammar_error, for a message of the lexer (exc_type is None)
BuildGrammarError ==
    /\ call.op # "transaction"
    /\ Len(errors) < MaxPriorErrors
    /\ errors' = Append(errors,
            ParserSyntaxError(new_metadata(TheFilename, line, None),
                              Msg("syntax error", None), None))
    /\ call' = [op |-> "build_grammar_error", lineno |-> line,
                raised |-> "none", pre |-> Pre]
    /\ UNCHANGED <<process, line, options, account_regexp, sys_path, entries, object_list>>

\* Builder.handle_list on the items of a transaction
HandleListItem ==
    /\ call.op # "transaction"
    /\ (IF IsNone(object_list) THEN 0 ELSE Len(Get(object_list))) < MaxItems
    /\ \E new_object \in {None} \cup {Some(it) : it \in Items} :
          /\ object_list' = handle_list(object_list, new_object)
          /\ call' = [op |-> "handle_list", list |-> object_list,
                      new_object |-> new_object, ret |-> object_list',
                      raised |-> "none", pre |-> Pre]
    /\ UNCHANGED <<process, line, errors, options, account_regexp, sys_path, entries>>

\* Builder.transaction on the list built so far
Transaction ==
    /\ call.op # "transaction"
    /\ \E flag \in Flags, txn_strings \in TxnStrings,
          active_meta \in ActiveMetas :
          LET r == transaction(TheFilename, line, TheDate, flag, txn_strings,
                               TheTags, TheLinks, object_list, active_meta)
          IN  /\ errors' = errors \o r.errs
              /\ call' = [op |-> "transaction", lineno |-> line, flag |-> flag,
                          txn_strings |-> txn_strings, tags |-> TheTags,
                          links |-> TheLinks, posting_or_kv_list |-> object_list,
                          active_meta |-> active_meta, ret |-> r.ret,
                          raised |-> "none", pre |-> Pre]
    /\ object_list' = None
    /\ UNCHANGED <<process, line, options, account_regexp, sys_path, entries>>

\* The option directives of the source file: key and raw value (a string)
OptionInputs ==
    { <<"no_such_option", Str("x")>>,
      <<"filename", Str("other.beancount")>>,
      <<"input_file", Str("other.beancount")>>,
      <<"name_assets", Str("Actif")>>,
      <<"account_assets", Str("Avoirs")>>,
      <<"operating_currency", Str("USD")>>,
      <<"inferred_tolerance_default", Str("USD:1")>>,
      <<"inferred_tolerance_default", Str("CHF:2")>>,
      <<"inferred_tolerance_default", Str("bad")>>,
      <<"default_tolerance", Str("USD:2")>>,
      <<"default_tolerance", Str("bad")>>,
      <<"map_plain", Str("x")>>,
      <<"map_old", Str("x")>>,
      <<"render_commas", Str("TRUE")>>,
      <<"render_commas", Str("0")>>,
      <<"render_commas", Str("On")>>,
      <<"render_commas", Str("1")>>,
      <<"render_commas", Str("yes")>>,
      <<"infer_tolerance_from_cost", Str("yes")>>,
      <<"booking_method", Str("FIFO")>>,
      <<"insert_pythonpath", Str("TRUE")>> }

\* What an option directive does: Builder.option on its key and value
OptionCall(key, value) ==
    LET r == option(Pre, TheFilename, line, key, value)
    IN  /\ call.raised = "none"
        /\ line <= MaxDirectives
        /\ errors' = r.errors
        /\ options' = r.options
        /\ account_regexp' = r.account_regexp
        /\ sys_path' = r.sys_path
        /\ call' = [op |-> "option", lineno |-> line, key |-> key,
                    value |-> value, raised |-> r.raised, pre |-> Pre]
        /\ line' = line + 1
        /\ UNCHANGED <<process, entries, object_list>>

\* Builder.option
Option == \E kv \in OptionInputs : OptionCall(kv[1], kv[2])

\* Builder.include
Include ==
    /\ call.raised = "none"
    /\ line <= MaxDirectives
    /\ \E include_filename \in {"other.beancount"} :
          /\ options' = include(options, include_filename)
          /\ call' = [op |-> "include", lineno |-> line,
                      include_filename |-> include_filename,
                      raised |-> "none", pre |-> Pre]
    /\ line' = line + 1
    /\ UNCHANGED <<process, errors, account_regexp, sys_path, entries, object_list>>

\* Builder.plugin
Plugin ==
    /\ call.raised = "none"
    /\ line <= MaxDirectives
    /\ \E plugin_name \in {"beancount.plugins.auto"},
          plugin_config \in {None, Some("config")} :
          /\ options' = plugin(options, plugin_name, plugin_config)
          /\ call' = [op |-> "plugin", lineno |-> line, plugin_name |-> plugin_name,
                      plugin_config |-> plugin_config,
                      raised |-> "none", pre |-> Pre]
    /\ line' = line + 1
    /\ UNCHANGED <<process, errors, account_regexp, sys_path, entries, object_list>>

NextOpt == Option \/ Include \/ Plugin

\* The option registry: the option, include and plugin directives of a file
SpecOpt == Init /\ [][NextOpt]_vars

\* The inputs of the directive productions
Dates == {Date(2016, 1, 1), Date(2016, 1, 2)}
KvLists == {None, Some(<<KeyValueItem("k1", o1)>>)}
BookingTokens == {None, Some(""), Some("FIFO"), Some("NOTAREALMETHOD")}
DocumentFilenames == {Path(FALSE, <<"a.pdf">>), Path(TRUE, <<"z", "b.pdf">>)}
\* The start rule and the caller's reading of the result end the parse
ResultOps == {"store_result", "finalize"}
DirectiveOps == {"open", "close", "commodity", "pad", "event", "query", "price",
                 "note", "document", "custom"}

\* What a directive production does with the constructor's outcome r.  The
\* engine hands every directive to handle_list before the next production.
Construct(op, args, r) ==
    /\ call.raised = "none"
    /\ call.op \notin DirectiveOps \cup ResultOps
    /\ line <= MaxDirectives
    /\ errors' = errors \o r.errs
    /\ call' = [op |-> op, lineno |-> line, args |-> args, ret |-> r.ret,
                raised |-> r.raised, pre |-> Pre]
    /\ line' = line + 1
    /\ UNCHANGED <<process, options, account_regexp, sys_path, entries, object_list>>

Open ==
    \E date \in {TheDate}, booking_str \in BookingTokens, kvlist \in {None} :
        Construct("open", [date |-> date, booking_str |-> booking_str,
                           kvlist |-> kvlist],
                  open(options, TheFilename, line, date, "Assets:Cash", <<"USD">>,
                       booking_str, kvlist))

Close ==
    \E date \in Dates :
        Construct("close", [date |-> date],
                  close(TheFilename, line, date, "Assets:Cash", None))

Commodity ==
    \E date \in {TheDate} :
        Construct("commodity", [date |-> date],
                  commodity(TheFilename, line, date, "USD", None))

Pad ==
    \E date \in {TheDate} :
        Construct("pad", [date |-> date],
                  pad(TheFilename, line, date, "Assets:Cash", "Equity:Opening", None))

Event ==
    \E date \in {TheDate} :
        Construct("event", [date |-> date],
                  event(TheFilename, line, date, "location", "Paris", None))

Query ==
    \E date \in {TheDate} :
        Construct("query", [date |-> date],
                  query(TheFilename, line, date, "cash", "SELECT account", None))

Price ==
    \E date \in {TheDate} :
        Construct("price", [date |-> date],
                  price(TheFilename, line, date, "CHF",
                        [number |-> Num(2), currency |-> "USD"], None))

Note ==
    \E date \in {TheDate}, kvlist \in KvLists :
        Construct("note", [date |-> date, kvlist |-> kvlist],
                  note(TheFilename, line, date, "Assets:Cash", "called the bank",
                       kvlist))

Document ==
    \E date \in {TheDate}, document_filename \in DocumentFilenames :
        Construct("document", [date |-> date, document_filename |-> document_filename,
                               tags |-> {"t1"}, links |-> {}],
                  document(TheFilename, line, date, "Assets:Cash", document_filename,
                           {"t1"}, {}, None))

Custom ==
    \E date \in {TheDate} :
        Construct("custom", [date |-> date],
                  custom(TheFilename, line, date, "budget",
                         <<custom_value(Str("weekly"), None),
                           custom_value(Str("Assets:Cash"), Some("account"))>>,
                         None))

\* Builder.handle_list on the directive (or None) the last production returned
HandleListEntry ==
    /\ call.raised = "none"
    /\ call.op \in DirectiveOps
    /\ object_list' = handle_list(object_list, call.ret)
    /\ call' = [op |-> "handle_list", list |-> object_list, new_object |-> call.ret,
                ret |-> object_list', raised |-> "none", pre |-> Pre]
    /\ UNCHANGED <<process, line, errors, options, account_regexp, sys_path, entries>>

\* Builder.option, for the option open() reads
BookingOption ==
    /\ call.op \notin DirectiveOps \cup ResultOps
    /\ \E value \in {"FIFO", "NOTAREALMETHOD"} :
          OptionCall("booking_method", Str(value))

\* Builder.store_result, on the list the engine built
StoreResult ==
    /\ call.raised = "none"
    /\ call.op \notin DirectiveOps \cup ResultOps
    /\ LET r == store_result(entries, options, TheFilename, object_list)
       IN  /\ entries' = r.entries
           /\ options' = r.options
    /\ call' = [op |-> "store_result", lineno |-> line, entries |-> object_list,
                raised |-> "none", pre |-> Pre]
    /\ UNCHANGED <<process, line, errors, account_regexp, sys_path, object_list>>

\* Builder.finalize.  The record of the call keeps what the call before it
\* returned, when that was finalize() too.
Finalize ==
    /\ call.raised = "none"
    /\ call.op \notin DirectiveOps
    /\ LET r == finalize(entries, errors, options)
       IN  /\ options' = r.options
           /\ call' = [op |-> "finalize", ret |-> r,
                       last_ret |-> IF call.op = "finalize" THEN Some(call.ret)
                                    ELSE None,
                       raised |-> "none", pre |-> Pre]
    /\ UNCHANGED <<process, line, errors, account_regexp, sys_path, entries,
                   object_list>>

NextDir ==
    \/ BookingOption \/ StoreResult \/ Finalize
    \/ Open \/ Close \/ Commodity \/ Pad \/ Event \/ Query \/ Price \/ Note
    \/ Document \/ Custom \/ HandleListEntry

\* The directive constructors: the dated directives of a file
SpecDir == Init /\ [][NextDir]_vars

NextTxn == BuildGrammarError \/ HandleListItem \/ Transaction

\* The transaction assembler: the productions of one transaction
SpecTxn == Init /\ [][NextTxn]_vars

\* Builder.__init__ for another builder of the process
BuilderInit(cells, defaults, s) ==
    LET copy == deepcopy(cells, defaults, s)
    IN  [cells |-> copy.cells,
         builder |-> [options |-> copy.store, errors |-> <<>>, entries |-> <<>>,
                      account_regexp |->
                          valid_account_regexp(Deref(copy.cells, copy.store))]]

\* The state of builder s, with the option values its store stands for
Session(p, s) ==
    [options |-> Deref(p.cells, p.sessions[s].options),
     errors |-> p.sessions[s].errors,
     entries |-> p.sessions[s].entries,
     account_regexp |-> p.sessions[s].account_regexp,
     sys_path |-> sys_path]

NewBuilder ==
    /\ \E s \in Sessions \ DOMAIN process.sessions :
          LET r == BuilderInit(process.cells, process.defaults, s)
          IN  process' = [process EXCEPT !.cells = r.cells,
                                         !.sessions = @ @@ (s :> r.builder),
                                         !.actor = s]
    /\ UNCHANGED <<line, errors, options, account_regexp, sys_path, entries,
                   object_list, call>>

\* A call on builder s that leaves it with the state `after`
SessionCall(s, after) ==
    /\ process.calls < MaxSessionCalls
    /\ LET a == Assigned(process.cells, process.sessions[s].options, after.options)
       IN  process' = [process EXCEPT
                          !.cells = a.cells,
                          !.sessions[s] = [options |-> a.store,
                                           errors |-> after.errors,
                                           entries |-> after.entries,
                                           account_regexp |-> after.account_regexp],
                          !.calls = @ + 1,
                          !.actor = s]
    /\ sys_path' = after.sys_path
    /\ UNCHANGED <<line, errors, options, account_regexp, entries, object_list, call>>

\* The option directives given to the builders of the process
SessionOptionInputs ==
    { <<"name_assets", Str("Actif")>>,
      <<"operating_currency", Str("USD")>>,
      <<"default_tolerance", Str("USD:2")>>,
      <<"insert_pythonpath", Str("TRUE")>> }

\* Builder.option on builder s
SessionOption ==
    \E s \in DOMAIN process.sessions, kv \in SessionOptionInputs :
        LET b == Session(process, s)
            r == option(b, TheFilename, process.calls + 1, kv[1], kv[2])
        IN  SessionCall(s, [b EXCEPT !.options = r.options, !.errors = r.errors,
                                     !.account_regexp = r.account_regexp,
                                     !.sys_path = r.sys_path])

\* Builder.include on builder s
SessionInclude ==
    \E s \in DOMAIN process.sessions :
        LET b == Session(process, s)
        IN  SessionCall(s, [b EXCEPT !.options = include(@, "other.beancount")])

\* Builder.plugin on builder s
SessionPlugin ==
    \E s \in DOMAIN process.sessions :
        LET b == Session(process, s)
        IN  SessionCall(s, [b EXCEPT !.options =
                                plugin(@, "beancount.plugins.auto", None)])

\* Builder.transaction on builder s, with one string too many
SessionTransaction ==
    \E s \in DOMAIN process.sessions :
        LET b == Session(process, s)
            r == transaction(TheFilename, process.calls + 1, TheDate, 42,
                             Some(<<"a", "b", "c">>), TheTags, TheLinks, None, None)
        IN  SessionCall(s, [b EXCEPT !.errors = @ \o r.errs])

\* Builder.store_result on builder s, with one entry
SessionStoreResult ==
    \E s \in DOMAIN process.sessions :
        LET b == Session(process, s)
            entry == close(TheFilename, process.calls + 1, TheDate, "Assets:Cash", None).ret
            r == store_result(b.entries, b.options, TheFilename, Some(entry))
        IN  SessionCall(s, [b EXCEPT !.options = r.options, !.entries = r.entries])

\* Builder.finalize on builder s
SessionFinalize ==
    \E s \in DOMAIN process.sessions :
        LET b == Session(process, s)
            r == finalize(b.entries, b.errors, b.options)
        IN  SessionCall(s, [b EXCEPT !.options = r.options])

NextTwo ==
    \/ NewBuilder \/ SessionOption \/ SessionInclude \/ SessionPlugin
    \/ SessionTransaction \/ SessionStoreResult \/ SessionFinalize

\* The builders of one process: their creation and their operations, in
\* any interleaving
SpecTwo == Init /\ [][NextTwo]_vars

\* The builder: every operation, in any order.  Its state space is the
\* product of those of the three parts, each of which is checked by itself:
\* transaction() reads no option, option() reads neither the entries nor the
\* engine's list, and each only appends to the errors of the others.
Next == NextOpt \/ NextDir \/ NextTxn \/ NextTwo

Spec == Init /\ [][Next]_vars

----------------------------------------------------------------------------
(* What the claims speak of, in terms of the last call *)

LastTxn == call.op = "transaction"
TxnItems ==
    IF IsNone(call.posting_or_kv_list) THEN <<>> ELSE Get(call.posting_or_kv_list)
TxnReturned == LastTxn /\ ~IsNone(call.ret)
Txn == Get(call.ret)

\* The errors the last call appended
NewErrors == SubSeq(errors, Len(call.pre.errors) + 1, Len(errors))
ErrorsAreAppended ==
    /\ Len(errors) >= Len(call.pre.errors)
    /\ SubSeq(errors, 1, Len(call.pre.errors)) = call.pre.errors

RECURSIVE PickIdx(_, _, _)
PickIdx(seq, S, i) ==
    IF i > Len(seq) THEN <<>>
    ELSE (IF i \in S THEN <<seq[i]>> ELSE <<>>) \o PickIdx(seq, S, i + 1)

\* The arguments of the new errors with one of the texts, in order
NewErrorArgs(texts) ==
    LET idx == {i \in 1..Len(NewErrors) : NewErrors[i].message.text \in texts}
    IN  [i \in 1..Len(PickIdx(NewErrors, idx, 1)) |->
            PickIdx(NewErrors, idx, 1)[i].message.arg]

DuplicateTexts == {"Duplicate metadata field on entry", "Duplicate posting metadata field"}
TagsLinksText == "Tags or links not allowed after first Posting"
TooManyText == "Too many strings on transaction description"

\* The scope of item i: 0 is the entry, n > 0 the n-th Posting of the list
ScopeOf(items, i) == Cardinality({j \in 1..i : items[j].kind = "Posting"})
PostingAt(items, n) ==
    items[CHOOSE i \in 1..Len(items) :
              items[i].kind = "Posting" /\ ScopeOf(items, i) = n]
NumPostings(items) == ScopeOf(items, Len(items))
KVIdx(items) == {i \in 1..Len(items) : items[i].kind = "KeyValue"}
\* The KeyValue items of a scope, and the first of them with a key
ScopeKVs(items, n) == {i \in KVIdx(items) : ScopeOf(items, i) = n}
ScopeKeys(items, n) == {items[i].key : i \in ScopeKVs(items, n)}
FirstKV(items, n, k) ==
    items[CHOOSE i \in ScopeKVs(items, n) :
              /\ items[i].key = k
              /\ \A j \in ScopeKVs(items, n) : items[j].key = k => i <= j]
\* The keys a scope holds before its first KeyValue
InitialKeys(items, n) ==
    IF n = 0 \/ IsNone(PostingAt(items, n).meta) THEN {}
    ELSE DOMAIN Get(PostingAt(items, n).meta)
\* The KeyValue items that follow a KeyValue of the same key and scope
LaterKVs(items) ==
    {i \in KVIdx(items) :
        \E j \in KVIdx(items) :
            j < i /\ items[j].key = items[i].key
                  /\ ScopeOf(items, j) = ScopeOf(items, i)}
\* The KeyValue items whose key their scope already holds
PresentKVs(items) ==
    LaterKVs(items)
    \cup {i \in KVIdx(items) : items[i].key \in InitialKeys(items, ScopeOf(items, i))}
\* The metadata of a scope of the returned Transaction (a dict)
ScopeMeta(n) ==
    IF n = 0 THEN Txn.meta
    ELSE IF IsNone(Txn.postings[n].meta) THEN EmptyDict
    ELSE Get(Txn.postings[n].meta)

----------------------------------------------------------------------------
(* Claims on the builder as a whole *)

\* C1: every builder operation, in any order and with any input of the
\* engine, returns normally and reports failures only through the error list:
\* no call ends with an exception leaving the builder.
C1_NoExceptionEscapes == call.raised = "none"

----------------------------------------------------------------------------
(* Claims on transaction() *)

\* C2: for any item sequence, every KeyValue whose key is already present in
\* its scope (the entry, or the most recent Posting), whatever its value and
\* also when the value is the very same object, appends exactly one
\* duplicate-metadata error, and the scope keeps the value of the first
\* KeyValue with that key.
C2_DuplicateKeyOneError ==
    LastTxn =>
        /\ ErrorsAreAppended
        /\ NewErrorArgs(DuplicateTexts) = PickIdx(TxnItems, PresentKVs(TxnItems), 1)
        /\ TxnReturned =>
              \A i \in LaterKVs(TxnItems) :
                LET n == ScopeOf(TxnItems, i)
                    k == TxnItems[i].key
                IN  k \notin InitialKeys(TxnItems, n)
                      => Is(ScopeMeta(n)[k], FirstKV(TxnItems, n, k).value)

\* C3: each TagsLinks item after a Posting appends exactly one error and
\* gives nothing to the result; each one before the first Posting appends
\* no error, and the returned tags and links are those of the arguments
\* together with the ones of the TagsLinks items before the first Posting.
C3_TagsLinksPlacement ==
    LastTxn =>
        LET tl == {i \in 1..Len(TxnItems) : TxnItems[i].kind = "TagsLinks"}
            before == {i \in tl : ScopeOf(TxnItems, i) = 0}
        IN  /\ ErrorsAreAppended
            /\ NewErrorArgs({TagsLinksText}) = PickIdx(TxnItems, tl \ before, 1)
            /\ TxnReturned =>
                  /\ Txn.tags = call.tags \cup UNION {TxnItems[i].tags : i \in before}
                  /\ Txn.links = call.links \cup UNION {TxnItems[i].links : i \in before}

C3_Witness ==
    /\ TxnReturned
    /\ \E i, j, k \in 1..Len(TxnItems) :
          /\ i < j /\ j < k
          /\ TxnItems[i].kind = "TagsLinks"
          /\ TxnItems[j].kind = "Posting"
          /\ TxnItems[k].kind = "TagsLinks"
    /\ Len(NewErrors) = 1
    /\ Txn.tags = {"t0", "t1"}

\* C4: a KeyValue before every Posting is stored in the entry's metadata and
\* in no posting; a KeyValue after a Posting is stored in the metadata of
\* the most recent Posting only: the n-th returned posting holds the keys it
\* came with and the keys of the KeyValue items between it and the next
\* Posting, the entry holds its location, the inherited keys and the keys of
\* the KeyValue items before the first Posting.
C4_KeyValueScope ==
    TxnReturned =>
        /\ DOMAIN Txn.meta =
              {"filename", "lineno"} \cup ScopeKeys(TxnItems, 0)
              \cup (IF IsNone(call.active_meta) THEN {}
                    ELSE DOMAIN Get(call.active_meta))
        /\ \A k \in ScopeKeys(TxnItems, 0) :
              Is(Txn.meta[k], FirstKV(TxnItems, 0, k).value)
        /\ Len(Txn.postings) = NumPostings(TxnItems)
        /\ \A n \in 1..Len(Txn.postings) :
              LET given == PostingAt(TxnItems, n)
                  got == Txn.postings[n]
              IN  /\ IsNone(got.meta) <=>
                        (IsNone(given.meta) /\ ScopeKVs(TxnItems, n) = {})
                  /\ DOMAIN ScopeMeta(n) =
                        InitialKeys(TxnItems, n) \cup ScopeKeys(TxnItems, n)
                  /\ \A k \in InitialKeys(TxnItems, n) :
                        Is(ScopeMeta(n)[k], Get(given.meta)[k])
                  /\ \A k \in ScopeKeys(TxnItems, n) \ InitialKeys(TxnItems, n) :
                        Is(ScopeMeta(n)[k], FirstKV(TxnItems, n, k).value)
        \* the same key at the entry and on postings is no duplicate
        /\ Len(NewErrorArgs(DuplicateTexts)) <= Cardinality(PresentKVs(TxnItems))

C4_Witness ==
    /\ TxnReturned
    /\ Len(TxnItems) = 3
    /\ TxnItems[1].kind = "KeyValue" /\ TxnItems[1].key = "k1"
    /\ TxnItems[2].kind = "Posting" /\ IsNone(TxnItems[2].meta)
    /\ TxnItems[3].kind = "KeyValue" /\ TxnItems[3].key = "k1"
    /\ ~Is(TxnItems[1].value, TxnItems[3].value)
    /\ Is(Txn.meta["k1"], TxnItems[1].value)
    /\ Is(Get(Txn.postings[1].meta)["k1"], TxnItems[3].value)
    /\ NewErrors = <<>>

\* C5: no descriptor string (or an absent list) gives no payee and the
\* narration ""; one string gives no payee and the string as narration; two
\* give payee and narration; more than two append exactly one error and the
\* call returns None.
C5_UnpackTxnStrings ==
    LastTxn =>
        LET strings == IF IsNone(call.txn_strings) THEN <<>> ELSE Get(call.txn_strings)
            tooMany == NewErrorArgs({TooManyText})
        IN  /\ ErrorsAreAppended
            /\ Len(strings) = 0 =>
                  /\ TxnReturned /\ IsNone(Txn.payee) /\ Txn.narration = ""
                  /\ tooMany = <<>>
            /\ Len(strings) = 1 =>
                  /\ TxnReturned /\ IsNone(Txn.payee) /\ Txn.narration = strings[1]
                  /\ tooMany = <<>>
            /\ Len(strings) = 2 =>
                  /\ TxnReturned /\ Txn.payee = Some(strings[1])
                  /\ Txn.narration = strings[2]
                  /\ tooMany = <<>>
            /\ Len(strings) > 2 =>
                  /\ IsNone(call.ret)
                  /\ tooMany = <<call.txn_strings>>
                  /\ NewErrors[Len(NewErrors)].message.text = TooManyText

C5_Witness ==
    /\ LastTxn
    /\ call.txn_strings = Some(<<"a", "b", "c">>)
    /\ IsNone(call.ret)
    /\ Len(NewErrors) = 1
    /\ Len(call.pre.errors) = 1

\* C6: the returned entry metadata holds every inherited key and every
\* explicit entry-level key; for a key in both the explicit value is stored,
\* and the conflict appends no error.
C6_InheritedThenExplicit ==
    TxnReturned =>
        LET active == IF IsNone(call.active_meta) THEN EmptyDict
                      ELSE Get(call.active_meta)
            explicit == ScopeKeys(TxnItems, 0)
        IN  /\ (DOMAIN active) \cup explicit \subseteq DOMAIN Txn.meta
            /\ \A k \in explicit : Is(Txn.meta[k], FirstKV(TxnItems, 0, k).value)
            /\ \A k \in (DOMAIN active) \ explicit : Is(Txn.meta[k], active[k])
            /\ Len(NewErrorArgs({"Duplicate metadata field on entry"}))
                  <= Cardinality(LaterKVs(TxnItems) \cap ScopeKVs(TxnItems, 0))

C6_Witness ==
    /\ TxnReturned
    /\ ~IsNone(call.active_meta)
    /\ "k1" \in DOMAIN Get(call.active_meta)
    /\ TxnItems = <<KeyValueItem("k1", o1)>>
    /\ ~Is(Get(call.active_meta)["k1"], o1)
    /\ Is(Txn.meta["k1"], o1)
    /\ Is(Txn.meta["k2"], Get(call.active_meta)["k2"])
    /\ NewErrors = <<>>

----------------------------------------------------------------------------
(* Claims on option() *)

LastOption == call.op = "option"
\* Two option values, or two stores, are the same: same types, same values
SameValue(a, b) == a.type = b.type /\ a.v = b.v
SameOptions(a, b) ==
    /\ DOMAIN a = DOMAIN b
    /\ \A k \in DOMAIN a : SameValue(a[k], b[k])
\* Nothing of the builder but the error list differs from the start of the call
OnlyErrorsChanged ==
    /\ SameOptions(options, call.pre.options)
    /\ account_regexp = call.pre.account_regexp
    /\ sys_path = call.pre.sys_path
    /\ entries = call.pre.entries
\* The key the value is merged under, and its descriptor
CanonicalKey(key) ==
    IF ~IsNone(OPTIONS[key].alias) THEN Get(OPTIONS[key].alias) ELSE key
\* The value after the converter of the canonical key, when it has one
ConvertedValue(key, value) ==
    LET c == OPTIONS[CanonicalKey(key)].converter
    IN  IF IsNone(c) THEN Converted(value) ELSE Convert(Get(c), value)
\* option() reaches the merge: the key is known, not read-only, and the
\* converter accepts the value
ReachesMerge ==
    /\ LastOption
    /\ call.key \in DOMAIN call.pre.options
    /\ call.key \notin READ_ONLY_OPTIONS
    /\ ConvertedValue(call.key, call.value).ok

\* C7: option() with a key that is not in the option store appends exactly
\* one error and leaves every option value, the account-name pattern and the
\* entry list unchanged.
C7_UnknownOption ==
    (LastOption /\ call.key \notin DOMAIN call.pre.options) =>
        /\ call.raised = "none"
        /\ ErrorsAreAppended
        /\ Len(NewErrors) = 1
        /\ NewErrors[1].type = "ParserError"
        /\ NewErrors[1].message.text = "Invalid option"
        /\ OnlyErrorsChanged

C7_Witness ==
    /\ LastOption
    /\ call.key = "no_such_option"
    /\ Len(errors) = 2
    /\ ~SameOptions(options, OPTIONS_DEFAULTS)
    /\ account_regexp # valid_account_regexp(OPTIONS_DEFAULTS)

\* C8: option() with a known read-only key appends exactly one error and
\* changes no option value and nothing else of the builder.
C8_ReadOnlyOption ==
    (LastOption /\ call.key \in DOMAIN call.pre.options
                /\ call.key \in READ_ONLY_OPTIONS) =>
        /\ call.raised = "none"
        /\ ErrorsAreAppended
        /\ Len(NewErrors) = 1
        /\ NewErrors[1].type = "ParserError"
        /\ NewErrors[1].message.text = "Option may not be set"
        /\ OnlyErrorsChanged

C8_Witness ==
    /\ LastOption
    /\ call.key = "filename"
    /\ Len(errors) = 2
    /\ ~SameOptions(options, OPTIONS_DEFAULTS)
    /\ options["filename"].type = "NoneType"

\* C9: option() on a mapping-typed key, deprecated or not: a (converted)
\* value that is not a pair appends an error and the call returns with the
\* mapping unchanged; a pair (subkey, subvalue) is stored under subkey and
\* every other subkey keeps its value.
C9_MappingOption ==
    (ReachesMerge /\ call.pre.options[CanonicalKey(call.key)].type = "dict") =>
        LET key == CanonicalKey(call.key)
            value == ConvertedValue(call.key, call.value).value
            before == call.pre.options[key].v
        IN  IF ~IsPair(value) THEN
                /\ call.raised = "none"
                /\ ErrorsAreAppended
                /\ Len(NewErrors) >= 1
                /\ NewErrors[Len(NewErrors)].message.text = "Error for option"
                /\ SameOptions(options, call.pre.options)
            ELSE
                /\ call.raised = "none"
                /\ options[key].type = "dict"
                /\ DOMAIN options[key].v = (DOMAIN before) \cup {value.v[1]}
                /\ options[key].v[value.v[1]] = value.v[2]
                /\ \A k \in (DOMAIN before) \ {value.v[1]} :
                      options[key].v[k] = before[k]

\* C10: when the converter fails, option() appends one conversion error
\* (after the deprecation error of a deprecated key) and returns: every
\* option value and the account-name pattern are as before the call, nothing
\* is inserted in the search path, and the builder goes on to the next call.
C10_ConversionFailure ==
    (LastOption /\ call.key \in DOMAIN call.pre.options
                /\ call.key \notin READ_ONLY_OPTIONS
                /\ ~ConvertedValue(call.key, call.value).ok) =>
        /\ call.raised = "none"
        /\ ErrorsAreAppended
        /\ Len(NewErrors) = (IF IsNone(OPTIONS[call.key].deprecated) THEN 1 ELSE 2)
        /\ NewErrors[Len(NewErrors)].type = "ParserError"
        /\ NewErrors[Len(NewErrors)].message.text = "Error for option"
        /\ Len(NewErrors) = 2 => NewErrors[1].type = "DeprecatedError"
        /\ OnlyErrorsChanged

\* A failed conversion through a deprecated key, on a store that holds values
C10_Witness ==
    /\ LastOption
    /\ call.key = "default_tolerance" /\ call.value = Str("bad")
    /\ Len(NewErrors) = 2
    /\ "USD" \in DOMAIN options["inferred_tolerance_default"].v
    /\ options["name_assets"] = Str("Actif")
    /\ call.raised = "none"

\* C11: option() on a boolean-typed key stores a native boolean as it is;
\* for a text it stores TRUE exactly when the text in lower case is "true" or
\* "on", or the text is "1", and FALSE for every other text; no error is
\* recorded for the value.
C11_BooleanOption ==
    (ReachesMerge /\ call.pre.options[CanonicalKey(call.key)].type = "bool"
                  /\ call.value.type \in {"bool", "str"}) =>
        LET key == CanonicalKey(call.key)
            value == ConvertedValue(call.key, call.value).value
        IN  /\ call.raised = "none"
            /\ options[key].type = "bool"
            /\ value.type = "bool" => options[key].v = value.v
            /\ value.type = "str" =>
                  options[key].v = (Lower(value.v) \in {"true", "on"} \/ value.v = "1")
            /\ IsNone(OPTIONS[call.key].deprecated) => errors = call.pre.errors
            /\ \A k \in DOMAIN options \ {key} :
                  SameValue(options[k], call.pre.options[k])

\* An unrecognized text turns a true option to false, silently
C11_Witness ==
    /\ LastOption
    /\ call.key = "render_commas" /\ SameValue(call.value, Str("yes"))
    /\ call.pre.options["render_commas"] = Bool(TRUE)
    /\ options["render_commas"] = Bool(FALSE)
    /\ errors = call.pre.errors
    /\ call.raised = "none"

\* C12: option() with a deprecated key appends exactly one deprecation
\* error, first, and goes on; when the key has an alias, the option values,
\* the account-name pattern, the search path, the further errors and the
\* outcome are those of the same call made with the alias target as key,
\* and the value stored under the deprecated key is as before.
C12_DeprecatedOption ==
    (LastOption /\ call.key \in DOMAIN call.pre.options
                /\ call.key \notin READ_ONLY_OPTIONS
                /\ ~IsNone(OPTIONS[call.key].deprecated)) =>
        LET canonical == option(call.pre, TheFilename, call.lineno,
                                Get(OPTIONS[call.key].alias), call.value)
        IN  /\ ErrorsAreAppended
            /\ Len(NewErrors) >= 1
            /\ NewErrors[1].type = "DeprecatedError"
            /\ \A i \in 2..Len(NewErrors) : NewErrors[i].type # "DeprecatedError"
            /\ ~IsNone(OPTIONS[call.key].alias) =>
                  /\ SameOptions(options, canonical.options)
                  /\ account_regexp = canonical.account_regexp
                  /\ sys_path = canonical.sys_path
                  /\ call.raised = canonical.raised
                  /\ call.pre.errors \o Tail(NewErrors) = canonical.errors
                  /\ SameValue(options[call.key], call.pre.options[call.key])

\* A value set through the deprecated key lands under the alias target
C12_Witness ==
    /\ LastOption
    /\ call.key = "default_tolerance" /\ call.value = Str("USD:2")
    /\ Len(NewErrors) = 1
    /\ call.pre.options["inferred_tolerance_default"].v = ("USD" :> Num(1))
    /\ options["inferred_tolerance_default"].v = ("USD" :> Num(2))
    /\ options["default_tolerance"].v = EmptyDict

\* C19: transaction() returns None exactly when it is given more than two
\* strings.  With duplicate-metadata or misplaced-TagsLinks errors recorded
\* the Transaction is returned all the same, with the flag and the date of
\* the call; and the call, also when it returns None, changes nothing of
\* the builder but the error list, to which it only appends.
C19_NullOnlyForTooManyStrings ==
    LastTxn =>
        LET strings == IF IsNone(call.txn_strings) THEN <<>> ELSE Get(call.txn_strings)
        IN  /\ call.raised = "none"
            /\ IsNone(call.ret) <=> Len(strings) > 2
            /\ TxnReturned =>
                  /\ call.flag = 42 => Txn.flag = "*"
                  /\ call.flag = 33 => Txn.flag = "!"
                  /\ Txn.date = TheDate
            /\ ErrorsAreAppended
            /\ OnlyErrorsChanged

\* A Transaction returned with a duplicate-metadata error and a
\* misplaced-TagsLinks error recorded
C19_Witness ==
    /\ TxnReturned
    /\ Len(NewErrors) = 2
    /\ NewErrors[1].message.text \in DuplicateTexts
    /\ NewErrors[2].message.text = TagsLinksText
    /\ Txn.flag = "!"
    /\ Len(Txn.postings) = 1

\* C22: the postings of the returned Transaction are a sequence (empty for
\* an absent or empty item list) with one element for each Posting item, in
\* the order of the items, each with the account, units, cost, price and
\* flag of its item, also when metadata was attached to it.
C22_PostingsInOrder ==
    TxnReturned =>
        /\ Len(Txn.postings) = NumPostings(TxnItems)
        /\ \A n \in 1..Len(Txn.postings) :
              LET given == PostingAt(TxnItems, n)
                  got == Txn.postings[n]
              IN  /\ got.kind = "Posting"
                  /\ got.account = given.account
                  /\ got.units = given.units
                  /\ got.cost = given.cost
                  /\ got.price = given.price
                  /\ got.flag = given.flag

\* Metadata attached to the first of two postings, which had none
C22_Witness ==
    /\ TxnReturned
    /\ Len(TxnItems) = 3
    /\ TxnItems[1].kind = "Posting" /\ IsNone(TxnItems[1].meta)
    /\ TxnItems[2].kind = "KeyValue"
    /\ TxnItems[3].kind = "Posting" /\ TxnItems[3].account # TxnItems[1].account
    /\ Len(Txn.postings) = 2
    /\ ~IsNone(Txn.postings[1].meta)
    /\ Txn.postings[1].account = TxnItems[1].account
    /\ Txn.postings[2].account = TxnItems[3].account

\* C23: the metadata of the returned Transaction holds, under 'filename'
\* and 'lineno', the filename and the line number of the call, whatever the
\* inherited metadata and the KeyValue items, also the ones with the key
\* 'filename' or 'lineno'.
C23_SourceLocationKept ==
    TxnReturned =>
        /\ {"filename", "lineno"} \subseteq DOMAIN Txn.meta
        /\ Is(Txn.meta["filename"], FilenameObj(TheFilename))
        /\ Is(Txn.meta["lineno"], LinenoObj(call.lineno))

----------------------------------------------------------------------------
(* Claims on the directive constructors *)

\* C13: open() returns an Open directive in every case.  Without a booking
\* token its booking is None and no error is recorded; with a token that
\* names a Booking member it is that member and no error is recorded; with
\* any other token it is the value the option booking_method has when the
\* call is made, and exactly one error is appended, which refers to the
\* returned entry.
C13_OpenBooking ==
    call.op = "open" =>
        LET token == call.args.booking_str
        IN  /\ call.raised = "none"
            /\ ~IsNone(call.ret)
            /\ Get(call.ret).kind = "Open"
            /\ ErrorsAreAppended
            /\ IsNone(token) =>
                  /\ IsNone(Get(call.ret).booking)
                  /\ NewErrors = <<>>
            /\ (~IsNone(token) /\ Get(token) \in Booking) =>
                  /\ Get(call.ret).booking = token
                  /\ NewErrors = <<>>
            /\ (~IsNone(token) /\ Get(token) \notin Booking) =>
                  /\ Get(call.ret).booking =
                        Some(call.pre.options["booking_method"].v)
                  /\ Len(NewErrors) = 1
                  /\ NewErrors[1].entry = call.ret

\* C14: document() returns a Document whose filename is absolute: a relative
\* filename is joined to the directory of the file being parsed ("a.pdf"
\* from "/x/y/main.txt" gives "/x/y/a.pdf"), an absolute one is kept, and
\* the directive carries the tags and links of the call.
C14_DocumentFilename ==
    call.op = "document" =>
        /\ call.raised = "none"
        /\ ~IsNone(call.ret)
        /\ Get(call.ret).kind = "Document"
        /\ Get(call.ret).filename.abs
        /\ call.args.document_filename.abs =>
              Get(call.ret).filename = call.args.document_filename
        /\ ~call.args.document_filename.abs =>
              Get(call.ret).filename =
                  Path(TRUE, <<"x", "y">> \o call.args.document_filename.parts)
        /\ Get(call.ret).tags = call.args.tags
        /\ Get(call.ret).links = call.args.links

----------------------------------------------------------------------------
(* Claims on finalize() *)

LastFinalize == call.op = "finalize"
\* How many times an entry occurs in a sequence
Occurrences(seq, e) == Cardinality({i \in 1..Len(seq) : seq[i] = e})

\* C15: the entries finalize() returns are a permutation of the stored
\* sequence, in ascending order of date, then of kind priority, and in the
\* stored order for entries equal on both; a second finalize() right after
\* returns the same sequence; the stored sequence and the errors are as
\* before the call.
C15_FinalizeOrder ==
    LastFinalize =>
        LET stored == call.pre.entries
            ret == call.ret.entries
        IN  /\ Len(ret) = Len(stored)
            /\ \A i \in 1..Len(stored) :
                  Occurrences(ret, stored[i]) = Occurrences(stored, stored[i])
            /\ \A i, j \in 1..Len(ret) :
                  i < j =>
                    /\ ~DateLess(ret[j].date, ret[i].date)
                    /\ ret[i].date = ret[j].date =>
                          entry_priority(ret[i].kind) <= entry_priority(ret[j].kind)
                    /\ (/\ ret[i].date = ret[j].date
                        /\ entry_priority(ret[i].kind) = entry_priority(ret[j].kind)) =>
                          \E p, q \in 1..Len(stored) :
                              p < q /\ stored[p] = ret[i] /\ stored[q] = ret[j]
            /\ ~IsNone(call.last_ret) => ret = Get(call.last_ret).entries
            /\ entries = stored
            /\ errors = call.pre.errors

\* A second finalize() on three entries of one date stored out of order:
\* the Close goes last, the other two keep their order
C15_Witness ==
    /\ LastFinalize
    /\ ~IsNone(call.last_ret)
    /\ Len(entries) = 3
    /\ entries[1].kind = "Close" /\ entries[1].date = TheDate
    /\ entries[2].kind = "Pad"
    /\ entries[3].kind = "Commodity"
    /\ call.ret.entries = <<entries[2], entries[3], entries[1]>>

\* C16: every operation leaves the errors recorded before it in place, as
\* a prefix of the error list after it, and finalize() returns the whole
\* list, in the order recorded.
C16_ErrorsAppendOnly ==
    [][/\ Len(errors') >= Len(errors)
       /\ SubSeq(errors', 1, Len(errors)) = errors
       /\ call'.op = "finalize" => call'.ret.errors = errors]_vars

\* finalize() after an error of open() and a later error of option()
C16_Witness ==
    /\ LastFinalize
    /\ Len(call.ret.errors) = 2
    /\ call.ret.errors[1].message.text = "Invalid booking method"
    /\ call.ret.errors[2].message.text = "Error for option"

----------------------------------------------------------------------------
(* Claims on the option store *)

\* The kind of a value, which selects the merge rule of option()
Kind(value) ==
    CASE value.type = "list" -> "list"
      [] value.type = "dict" -> "mapping"
      [] value.type = "bool" -> "boolean"
      [] OTHER -> "scalar"

\* C17: after any sequence of option() calls, the value stored under each
\* key of the schema has the kind of the key's declared default (list,
\* mapping, boolean or scalar), so that the merge rule selected for the key
\* is the same all along.
C17_KindsKept ==
    \A key \in DOMAIN OPTIONS : Kind(options[key]) = Kind(OPTIONS[key].default)

\* A scalar, a boolean and a mapping have been set
C17_Witness ==
    /\ LastOption
    /\ options["name_assets"] = Str("Actif")
    /\ options["render_commas"] = Bool(TRUE)
    /\ "USD" \in DOMAIN options["inferred_tolerance_default"].v

----------------------------------------------------------------------------
(* Claims on the builders of one process *)

\* What the claim speaks of for a builder: option values, errors, entries
\* and account-name pattern
SameSession(a, b) ==
    /\ SameOptions(a.options, b.options)
    /\ a.errors = b.errors
    /\ a.entries = b.entries
    /\ a.account_regexp = b.account_regexp

\* C18: an operation on one builder (its creation, option, include, plugin,
\* transaction, store_result, finalize) leaves the option values, errors,
\* entries and account-name pattern of every other builder as they were,
\* and the shared option defaults as they were at import, so that a builder
\* created later starts from these defaults.
C18_SessionsIndependent ==
    [][/\ SameOptions(Deref(process'.cells, process'.defaults), OPTIONS_DEFAULTS)
       /\ \A s \in DOMAIN process.sessions :
             s # process'.actor =>
                SameSession(Session(process, s), Session(process', s))
       /\ \A s \in (DOMAIN process'.sessions) \ (DOMAIN process.sessions) :
             /\ SameOptions(Session(process', s).options, OPTIONS_DEFAULTS)
             /\ Session(process', s).errors = <<>>
             /\ Session(process', s).entries = <<>>
             /\ Session(process', s).account_regexp =
                   valid_account_regexp(OPTIONS_DEFAULTS)]_vars

\* Builder 2 was created after builder 1 had lists, names and errors of its
\* own, and has acted since
C18_Witness ==
    /\ DOMAIN process.sessions = {1, 2}
    /\ process.actor = 2
    /\ Len(Session(process, 1).options["operating_currency"].v) = 1
    /\ Len(Session(process, 2).options["operating_currency"].v) = 0
    /\ Len(Session(process, 2).options["include"].v) = 1
    /\ Len(Session(process, 1).options["include"].v) = 0
    /\ Session(process, 1).account_regexp # Session(process, 2).account_regexp

----------------------------------------------------------------------------
(* Claims on handle_list() *)

\* C21: handle_list() returns a list, never None: the list it was given
\* (the empty list for None) with the new object appended at the end when
\* the object is not None, and as it was when the object is None.  The
\* running list is therefore the non-null objects passed so far, in call
\* order, and is the empty list when all were None.
C21_RunningList ==
    call.op = "handle_list" =>
        LET before == IF IsNone(call.list) THEN <<>> ELSE Get(call.list)
        IN  /\ call.raised = "none"
            /\ ~IsNone(call.ret)
            /\ IsNone(call.new_object) => Get(call.ret) = before
            /\ ~IsNone(call.new_object) =>
                  Get(call.ret) = Append(before, Get(call.new_object))
            /\ object_list = call.ret

\* A None after two objects leaves both in place
C21_Witness ==
    /\ call.op = "handle_list"
    /\ IsNone(call.new_object)
    /\ ~IsNone(call.list)
    /\ Len(Get(call.list)) = 2
    /\ Get(call.list)[1].kind = "Posting"
    /\ object_list = call.list

\* C24: no call of option() changes the value stored under a read-only
\* key, whatever the key of the call, also a key that is not read-only and
\* is declared as an alias of a read-only one.
C24_ReadOnlyKept ==
    LastOption =>
        \A key \in READ_ONLY_OPTIONS :
            SameValue(options[key], call.pre.options[key])

====
